---- MODULE Spec2Model ----
(***************************************************************************)
(* gocache: the doubly linked list (dll), the single-threaded LRU          *)
(* controller (simplelru.LruCache) and the thread-safe wrapper             *)
(* (golru.Cache).                                                          *)
(***************************************************************************)
EXTENDS Integers, Sequences, FiniteSets, TLC

\* ------------------------------------------------------------------ bounds
NKeys == 3
NVals == 2
MaxCap == 2
NThreads == 2
\* the pairs the buffers may hold when a call leaves them there
MaxBuf == 1
\* the keys the threads of the wrapper use
NCacheKeys == 2

Keys == 1..NKeys
Values == 1..NVals
Threads == 1..NThreads
CacheKeys == 1..NCacheKeys
\* Add pushes the new entry before it evicts the oldest one.
NSlots == MaxCap + 1
Slots == 1..NSlots

\* ------------------------------------------------------- addresses, heap
\* &l.root, the sentinel of the ring
Root == 0
\* the nil pointer
Nil == -1
\* the zero value of the key and value types (int in the tests)
Zero == 0

VARIABLES
    size,        \* LruCache.size
    evictList,   \* LruCache.evictList: the ring, its entries' fields, len
    items,       \* LruCache.items: key -> entry address
    onEvict,     \* LruCache.onEvict is not nil
    evicts,      \* the callback's invocations during the last controller call
    last,        \* the last controller call: operation, arguments, results
    touched,     \* history: the live keys in the order of their most recent touch
    fresh,       \* history: the Adds of distinct keys made since the cache was empty
    rwm,         \* Cache.rwm: the writer and the readers holding it
    keysEvicted, \* Cache.keysEvicted
    valsEvicted, \* Cache.valsEvicted
    onEvictCb,   \* Cache.onEvictCb is not nil
    th,          \* per thread: position in the wrapper call and its locals
    quiet,       \* history: the thread whose ContainsOrAdd or PeekOrAdd added a
                 \* key, while it is in that call and the cache was not changed since
    ops,         \* history: the calls of a bounded run, in the order of their locks
    delivered    \* history: the pairs handed to the user's callback in that run

lruVars == <<size, evictList, items, onEvict>>
histVars == <<evicts, last, touched, fresh>>
cacheVars == <<rwm, keysEvicted, valsEvicted, onEvictCb, th>>
runVars == <<quiet, ops, delivered>>
vars == <<size, evictList, items, onEvict, evicts, last, touched, fresh,
          rwm, keysEvicted, valsEvicted, onEvictCb, th, quiet, ops, delivered>>

\* ------------------------------------------------------------ sequences
Range(f) == {f[x] : x \in DOMAIN f}

Orders(S) == {q \in [1..Cardinality(S) -> S] : \A i, j \in DOMAIN q : i # j => q[i] # q[j]}

Without(q, x) == SelectSeq(q, LAMBDA y : y # x)

\* ------------------------------------------------------------ dll.LruList
\* A list value: the links and fields of every entry address, and len.
\* list[e] is TRUE when entry.list points to this list (there is one list).
EmptyList ==
    [next |-> [n \in {Root} \cup Slots |-> Nil],
     prev |-> [n \in {Root} \cup Slots |-> Nil],
     list |-> [n \in {Root} \cup Slots |-> FALSE],
     Key  |-> [n \in {Root} \cup Slots |-> Zero],
     Val  |-> [n \in {Root} \cup Slots |-> Zero],
     len  |-> 0]

ListInit(l) ==
    [l EXCEPT !.next[Root] = Root, !.prev[Root] = Root, !.len = 0]

NewList == ListInit(EmptyList)

PrevEntry(l, e) ==
    LET prev == l.prev[e]
    IN  IF l.list[e] /\ prev # Root THEN prev ELSE Nil

Length(l) == l.len

Back_Front(l) == IF l.len = 0 THEN Nil ELSE l.next[Root]

Back(l) == IF l.len = 0 THEN Nil ELSE l.prev[Root]

lazyInit(l) == IF l.next[Root] = Nil THEN ListInit(l) ELSE l

insert_NoBackLink(l, entry, index) ==
    LET l1 == [l  EXCEPT !.prev[entry] = index]
        l2 == [l1 EXCEPT !.next[entry] = l1.next[index]]
        l3 == [l2 EXCEPT !.next[l2.prev[entry]] = entry]
    IN  [l3 EXCEPT !.list[entry] = TRUE, !.len = l3.len + 1]

insert(l, entry, index) ==
    LET l1 == [l  EXCEPT !.prev[entry] = index]
        l2 == [l1 EXCEPT !.next[entry] = l1.next[index]]
        l3 == [l2 EXCEPT !.next[l2.prev[entry]] = entry]
        l4 == [l3 EXCEPT !.prev[l3.next[entry]] = entry]
    IN  [l4 EXCEPT !.list[entry] = TRUE, !.len = l4.len + 1]

\* entry is the address of the Entry the allocator returns: its links are nil.
insertValue(l, entry, k, v, index) ==
    insert([l EXCEPT !.next[entry] = Nil, !.prev[entry] = Nil, !.list[entry] = FALSE,
                     !.Key[entry] = k, !.Val[entry] = v],
           entry, index)

PushFront(l, entry, k, v) == insertValue(lazyInit(l), entry, k, v, Root)

ListRemove(l, entry) ==
    LET l1 == [l  EXCEPT !.next[l.prev[entry]] = l.next[entry]]
        l2 == [l1 EXCEPT !.prev[l1.next[entry]] = l1.prev[entry]]
    IN  [l2 EXCEPT !.next[entry] = Nil, !.prev[entry] = Nil, !.list[entry] = FALSE,
                   !.len = l2.len - 1]

move(l, entry, index) ==
    IF entry = index THEN l
    ELSE LET l1 == [l  EXCEPT !.next[l.prev[entry]] = l.next[entry]]
             l2 == [l1 EXCEPT !.prev[l1.next[entry]] = l1.prev[entry]]
             l3 == [l2 EXCEPT !.prev[entry] = index]
             l4 == [l3 EXCEPT !.next[entry] = l3.next[index]]
             l5 == [l4 EXCEPT !.next[l4.prev[entry]] = entry]
         IN  [l5 EXCEPT !.prev[l5.next[entry]] = entry]

MoveToFront_Noop(l, entry) == l

MoveToFront(l, entry) ==
    IF ~l.list[entry] \/ l.next[Root] = entry THEN l ELSE move(l, entry, Root)

\* ------------------------------------------------------ simplelru.LruCache
\* A controller value: the fields of LruCache, the invocations of onEvict made
\* so far (evicts) and the pairs that left the cache so far (gone).
NoItems == [k \in {} |-> Nil]

NewLru(sz, cb) ==
    [size |-> sz, evictList |-> NewList, items |-> NoItems, onEvict |-> cb,
     evicts |-> <<>>, gone |-> <<>>]

\* The entries of the ring from l.root.next to the sentinel, newest first.
RECURSIVE RingFrom(_, _, _)
RingFrom(l, n, fuel) ==
    IF n = Root \/ n = Nil \/ fuel = 0 THEN <<>>
    ELSE <<n>> \o RingFrom(l, l.next[n], fuel - 1)

Ring(l) == RingFrom(l, l.next[Root], NSlots)

\* The address of a newly allocated Entry: the first one nothing refers to.
NewEntry(s) ==
    LET free == Slots \ (Range(s.items) \cup Range(Ring(s.evictList)))
    IN  CHOOSE e \in free : \A f \in free : e <= f

RECURSIVE Ascending(_)
Ascending(S) ==
    IF S = {} THEN <<>>
    ELSE LET m == CHOOSE x \in S : \A y \in S : x <= y
         IN  <<m>> \o Ascending(S \ {m})

\* Entries that neither the ring nor the index refers to are garbage: their
\* storage is reclaimed and holds the zero Entry again. An address means
\* nothing but the identity of its entry, so the live entries are numbered
\* afresh, in the order of the ring: states that differ only in the addresses
\* of their entries are one state.
Relocate(s, order) ==
    LET l == s.evictList
        n == Len(order)
        at == [a \in {Nil, Root} \cup Slots |->
                  IF a \in {Nil, Root} THEN a
                  ELSE IF \E j \in 1..n : order[j] = a
                       THEN CHOOSE j \in 1..n : order[j] = a
                       ELSE Nil]
        from == [j \in {Root} \cup Slots |->
                    IF j = Root THEN Root ELSE IF j <= n THEN order[j] ELSE Nil]
    IN  [s EXCEPT
          !.evictList =
            [next |-> [j \in DOMAIN l.next |-> IF from[j] # Nil THEN at[l.next[from[j]]] ELSE Nil],
             prev |-> [j \in DOMAIN l.prev |-> IF from[j] # Nil THEN at[l.prev[from[j]]] ELSE Nil],
             list |-> [j \in DOMAIN l.list |-> IF from[j] # Nil THEN l.list[from[j]] ELSE FALSE],
             Key  |-> [j \in DOMAIN l.Key  |-> IF from[j] # Nil THEN l.Key[from[j]] ELSE Zero],
             Val  |-> [j \in DOMAIN l.Val  |-> IF from[j] # Nil THEN l.Val[from[j]] ELSE Zero],
             len  |-> l.len],
          !.items = [k \in DOMAIN s.items |-> at[s.items[k]]]]

Collect(s) ==
    LET ring == Ring(s.evictList)
    IN  Relocate(s, ring \o Ascending(Range(s.items) \ Range(ring)))

\* onEvict(key, val), when it is set. The invocation is recorded with what a
\* callback reading the controller sees at that moment.
CallOnEvict(s, key, val) ==
    IF s.onEvict
    THEN [s EXCEPT !.evicts = Append(@, [key |-> key, val |-> val,
                                          found |-> key \in DOMAIN s.items,
                                          nitems |-> Cardinality(DOMAIN s.items),
                                          len |-> Length(s.evictList)])]
    ELSE s

DeleteItem(its, key) == [k \in DOMAIN its \ {key} |-> its[k]]

removeElement_KeepItem(s, entry) ==
    LET l1 == ListRemove(s.evictList, entry)
        key == l1.Key[entry]
        val == l1.Val[entry]
        s1 == [s EXCEPT !.evictList = l1,
                        !.gone = Append(@, [key |-> key, val |-> val])]
    IN  CallOnEvict(s1, key, val)

removeElement(s, entry) ==
    LET l1 == ListRemove(s.evictList, entry)
        key == l1.Key[entry]
        val == l1.Val[entry]
        s1 == [s EXCEPT !.evictList = l1,
                        !.items = DeleteItem(s.items, key),
                        !.gone = Append(@, [key |-> key, val |-> val])]
    IN  CallOnEvict(s1, key, val)

removeOldest_Skip(s) == s

removeOldest(s) ==
    LET entry == Back(s.evictList)
    IN  IF entry # Nil THEN removeElement(s, entry) ELSE s

\* order: the order in which range visits the map's keys.
RECURSIVE PurgeLoop(_, _, _)
PurgeLoop(s, order, i) ==
    IF i > Len(order) THEN s
    ELSE LET k == order[i]
             v == s.evictList.Val[s.items[k]]
             s1 == CallOnEvict(s, k, v)
         IN  PurgeLoop([s1 EXCEPT !.items = DeleteItem(s1.items, k),
                                  !.gone = Append(@, [key |-> k, val |-> v])],
                       order, i + 1)

LruPurge_NoInit(s, order) == PurgeLoop(s, order, 1)

LruPurge(s, order) ==
    PurgeLoop([s EXCEPT !.evictList = ListInit(s.evictList)], order, 1)

LruAddInsert_NoIndex(s, key, val) ==
    [s EXCEPT !.evictList = PushFront(s.evictList, NewEntry(s), key, val)]

\* Add, for a key that is not in the cache: the entry is pushed and indexed
LruAddInsert(s, key, val) ==
    LET entry == NewEntry(s)
        l1 == PushFront(s.evictList, entry, key, val)
    IN  [s EXCEPT !.evictList = l1,
                  !.items = [k \in DOMAIN s.items \cup {key} |->
                                IF k = key THEN entry ELSE s.items[k]]]

LruAddEvict_OffByOne(s1) ==
    LET evict == Length(s1.evictList) >= s1.size
    IN  [st |-> IF evict THEN removeOldest(s1) ELSE s1, ok |-> evict]

\* ... and then the oldest entry is evicted if the size is exceeded.
LruAddEvict(s1) ==
    LET evict == Length(s1.evictList) > s1.size
    IN  [st |-> IF evict THEN removeOldest(s1) ELSE s1, ok |-> evict]

LruAdd_NoUpdate(s, key, val) ==
    IF key \in DOMAIN s.items
    THEN [st |-> [s EXCEPT !.evictList = MoveToFront(s.evictList, s.items[key])],
          ok |-> FALSE]
    ELSE LruAddEvict(LruAddInsert(s, key, val))

LruAdd(s, key, val) ==
    IF key \in DOMAIN s.items
    THEN LET entry == s.items[key]
             l1 == MoveToFront(s.evictList, entry)
         IN  [st |-> [s EXCEPT !.evictList = [l1 EXCEPT !.Val[entry] = val]],
              ok |-> FALSE]
    ELSE LruAddEvict(LruAddInsert(s, key, val))

LruGet(s, key) ==
    IF key \notin DOMAIN s.items
    THEN [st |-> s, rval |-> Zero, ok |-> FALSE]
    ELSE LET entry == s.items[key]
             l1 == MoveToFront(s.evictList, entry)
         IN  [st |-> [s EXCEPT !.evictList = l1], rval |-> l1.Val[entry], ok |-> TRUE]

LruGetOldest(s) ==
    LET entry == Back(s.evictList)
    IN  IF entry # Nil
        THEN [st |-> s, rkey |-> s.evictList.Key[entry], rval |-> s.evictList.Val[entry],
              ok |-> TRUE]
        ELSE [st |-> s, rkey |-> Zero, rval |-> Zero, ok |-> FALSE]

LruContains(s, key) == [st |-> s, ok |-> key \in DOMAIN s.items]

LruPeek_Touch(s, key) == LruGet(s, key)

LruPeek(s, key) ==
    IF key \notin DOMAIN s.items
    THEN [st |-> s, rval |-> Zero, ok |-> FALSE]
    ELSE [st |-> s, rval |-> s.evictList.Val[s.items[key]], ok |-> TRUE]

LruLen(s) == Length(s.evictList)

LruCap(s) == s.size

\* The loop of Keys and Vals: out[i] = entry.<field>, oldest first. Writing past
\* the end of the slice panics: the result is then <<Nil>>.
RECURSIVE WalkBack(_, _, _, _, _)
WalkBack(l, field, entry, i, out) ==
    IF entry = Nil THEN out
    ELSE IF i >= Len(out) THEN <<Nil>>
    ELSE WalkBack(l, field, PrevEntry(l, entry), i + 1,
                  [out EXCEPT ![i + 1] = field[entry]])

LruKeys(s) ==
    LET l == s.evictList
    IN  WalkBack(l, l.Key, Back(l), 0, [j \in 1..Length(l) |-> Zero])

LruVals(s) ==
    LET l == s.evictList
    IN  WalkBack(l, l.Val, Back(l), 0, [j \in 1..Length(l) |-> Zero])

\* int: the width of the model's integers, the most negative one, and the
\* value an int result wraps to.
IntBits == 4
MinInt == -(2 ^ (IntBits - 1))
Wrap(x) == ((x - MinInt) % (2 ^ IntBits)) + MinInt

RECURSIVE ResizeLoop(_, _, _)
ResizeLoop(s, i, diff) ==
    IF i < diff THEN ResizeLoop(removeOldest(s), i + 1, diff) ELSE s

LruResize_OneMore(s, sz) ==
    LET diff == Wrap(LruLen(s) - sz + 1)
        newSize == IF sz < 0 THEN 0 ELSE sz
        s1 == ResizeLoop(s, 0, diff)
        s2 == [s1 EXCEPT !.size = newSize]
    IN  [st |-> s2, rint |-> s2.size]

LruResize(s, sz) ==
    LET diff == Wrap(LruLen(s) - sz)
        newSize == IF sz < 0 THEN 0 ELSE sz
        s1 == ResizeLoop(s, 0, diff)
        s2 == [s1 EXCEPT !.size = newSize]
    IN  [st |-> s2, rint |-> s2.size]

LruRemove(s, key) ==
    IF key \in DOMAIN s.items
    THEN [st |-> removeElement(s, s.items[key]), ok |-> TRUE]
    ELSE [st |-> s, ok |-> FALSE]

LruRemoveOldest(s) ==
    LET entry == Back(s.evictList)
    IN  IF entry # Nil
        THEN LET s1 == removeElement(s, entry)
             IN  [st |-> s1, rkey |-> s1.evictList.Key[entry],
                  rval |-> s1.evictList.Val[entry], ok |-> TRUE]
        ELSE [st |-> s, rkey |-> Zero, rval |-> Zero, ok |-> FALSE]

\* ------------------------------------------------- the controller's calls
\* The controller as the variables hold it, at the start of a call.
Cur ==
    [size |-> size, evictList |-> evictList, items |-> items, onEvict |-> onEvict,
     evicts |-> <<>>, gone |-> <<>>]

NoCall ==
    [op |-> "New", key |-> Zero, val |-> Zero, n |-> 0, ok |-> FALSE,
     rkey |-> Zero, rval |-> Zero, rint |-> 0, rlist |-> <<>>, gone |-> <<>>,
     again |-> FALSE, pos |-> 0]

NoFresh == [valid |-> TRUE, adds |-> <<>>, gone |-> <<>>, evicts |-> <<>>]

Pairs(q) == [i \in DOMAIN q |-> [key |-> q[i].key, val |-> q[i].val]]

KeysOf(q) == {q[i].key : i \in DOMAIN q}

\* history: the run of Adds of distinct keys since the cache was last empty
FreshAfter(call, st) ==
    IF call.op = "Add" /\ fresh.valid /\ call.key \notin KeysOf(fresh.adds)
    THEN [valid |-> TRUE,
          adds |-> Append(fresh.adds, [key |-> call.key, val |-> call.val]),
          gone |-> fresh.gone \o st.gone,
          evicts |-> fresh.evicts \o Pairs(st.evicts)]
    ELSE IF DOMAIN st.items = {} /\ Length(st.evictList) = 0
    THEN NoFresh
    ELSE [NoFresh EXCEPT !.valid = FALSE]

\* history: a touch of key makes it the most recently touched one
Touch(key) == Append(Without(touched, key), key)

\* The call returns: the controller's fields, the callback's invocations and
\* the call's record are stored. again: the call is a Remove of the key that
\* the call before it removed; pos: where the call's key stood in the order
\* of touches when the call began, the oldest key at 1, an absent key at 0.
Return(st0, call, touch) ==
    LET st == Collect(st0)
    IN  /\ size' = st.size
        /\ evictList' = st.evictList
        /\ items' = st.items
        /\ evicts' = st.evicts
        /\ last' = [call EXCEPT !.gone = st.gone,
                                !.again = /\ call.op = "Remove"
                                          /\ last.op = "Remove"
                                          /\ last.key = call.key
                                          /\ last.ok,
                                !.pos = IF call.key \in Range(touched)
                                        THEN CHOOSE i \in DOMAIN touched :
                                                 touched[i] = call.key
                                        ELSE 0]
        /\ touched' = SelectSeq(touch, LAMBDA k : k \in DOMAIN st.items)
        /\ fresh' = FreshAfter(call, st)
        /\ UNCHANGED <<onEvict, rwm, keysEvicted, valsEvicted, onEvictCb, th, quiet, ops,
                     delivered>>

\* A thread's position in a wrapper call, the call's arguments and results, its
\* locals (k, v or keys, vals: the pairs taken from the buffers), the index of
\* the callback loop and the pairs it has handed to the user's callback.
\* history: left, the pairs the controller evicted during the call.
Idle ==
    [pc |-> "idle", op |-> "none", key |-> Zero, val |-> Zero, n |-> 0,
     ok |-> FALSE, found |-> FALSE, rkey |-> Zero, rval |-> Zero, rint |-> 0,
     rlist |-> <<>>, keys |-> <<>>, vals |-> <<>>, i |-> 0, cbs |-> <<>>,
     left |-> <<>>]

Init ==
    /\ size \in 1..MaxCap
    /\ evictList = NewList
    /\ items = NoItems
    /\ onEvict \in BOOLEAN
    /\ evicts = <<>>
    /\ last = NoCall
    /\ touched = <<>>
    /\ fresh = NoFresh
    /\ rwm = [w |-> Nil, r |-> {}]
    /\ keysEvicted = <<>>
    /\ valsEvicted = <<>>
    /\ onEvictCb = onEvict
    /\ th = [t \in Threads |-> Idle]
    /\ quiet = Nil
    /\ ops = <<>>
    /\ delivered = <<>>

Add ==
    \E key \in Keys, val \in Values :
        LET r == LruAdd(Cur, key, val)
        IN  Return(r.st, [NoCall EXCEPT !.op = "Add", !.key = key, !.val = val, !.ok = r.ok],
                   Touch(key))

Get ==
    \E key \in Keys :
        LET r == LruGet(Cur, key)
        IN  Return(r.st, [NoCall EXCEPT !.op = "Get", !.key = key, !.rval = r.rval, !.ok = r.ok],
                   IF r.ok THEN Touch(key) ELSE touched)

GetOldest ==
    LET r == LruGetOldest(Cur)
    IN  Return(r.st, [NoCall EXCEPT !.op = "GetOldest", !.rkey = r.rkey, !.rval = r.rval,
                                    !.ok = r.ok], touched)

Contains ==
    \E key \in Keys :
        LET r == LruContains(Cur, key)
        IN  Return(r.st, [NoCall EXCEPT !.op = "Contains", !.key = key, !.ok = r.ok], touched)

Peek ==
    \E key \in Keys :
        LET r == LruPeek(Cur, key)
        IN  Return(r.st, [NoCall EXCEPT !.op = "Peek", !.key = key, !.rval = r.rval,
                                        !.ok = r.ok], touched)

LenCall ==
    Return(Cur, [NoCall EXCEPT !.op = "Len", !.rint = LruLen(Cur)], touched)

CapCall ==
    Return(Cur, [NoCall EXCEPT !.op = "Cap", !.rint = LruCap(Cur)], touched)

KeysCall ==
    Return(Cur, [NoCall EXCEPT !.op = "Keys", !.rlist = LruKeys(Cur)], touched)

ValsCall ==
    Return(Cur, [NoCall EXCEPT !.op = "Vals", !.rlist = LruVals(Cur)], touched)

Resize ==
    \E sz \in -1..MaxCap :
        LET r == LruResize(Cur, sz)
        IN  Return(r.st, [NoCall EXCEPT !.op = "Resize", !.n = sz, !.rint = r.rint], touched)

Remove ==
    \E key \in Keys :
        LET r == LruRemove(Cur, key)
        IN  Return(r.st, [NoCall EXCEPT !.op = "Remove", !.key = key, !.ok = r.ok], touched)

RemoveOldest ==
    LET r == LruRemoveOldest(Cur)
    IN  Return(r.st, [NoCall EXCEPT !.op = "RemoveOldest", !.rkey = r.rkey, !.rval = r.rval,
                                    !.ok = r.ok], touched)

Purge ==
    \E order \in Orders(DOMAIN items) :
        Return(LruPurge(Cur, order), [NoCall EXCEPT !.op = "Purge"], touched)

Next ==
    \/ Add
    \/ Get
    \/ GetOldest
    \/ Contains
    \/ Peek
    \/ LenCall
    \/ CapCall
    \/ KeysCall
    \/ ValsCall
    \/ Resize
    \/ Remove
    \/ RemoveOldest
    \/ Purge

Spec == Init /\ [][Next]_vars

\* Resize with the most negative int
ResizeMin ==
    LET r == LruResize(Cur, MinInt)
    IN  Return(r.st, [NoCall EXCEPT !.op = "Resize", !.n = MinInt, !.rint = r.rint], touched)

WideNext ==
    \/ Next
    \/ ResizeMin

\* The controller's calls, Resize with any int.
WideSpec == Init /\ [][WideNext]_vars

\* ------------------------------------------------------------ golru.Cache
WriteOps == {"Add", "ContainsOrAdd", "PeekOrAdd", "Remove", "RemoveOldest", "Resize",
             "Purge", "Get"}
DeferRead == {"Contains", "Peek"}
EarlyRead == {"GetOldest", "Keys", "Vals", "Len"}

\* The arguments thread t may call op with. A thread stores its own number as
\* the value, so that a stored value tells which thread stored it.
Calls(op, t) ==
    CASE op \in {"Add", "ContainsOrAdd", "PeekOrAdd"} ->
             {[Idle EXCEPT !.op = op, !.key = k, !.val = t] : k \in CacheKeys}
      [] op \in {"Remove", "Get", "Contains", "Peek"} ->
             {[Idle EXCEPT !.op = op, !.key = k] : k \in CacheKeys}
      [] op = "Resize" ->
             {[Idle EXCEPT !.op = op, !.n = sz] : sz \in -1..MaxCap}
      [] OTHER -> {[Idle EXCEPT !.op = op]}

\* Cache.onEvict: the controller's callback appends the pair to the buffers.
Buffered(st) ==
    [keys |-> keysEvicted \o [j \in DOMAIN st.evicts |-> st.evicts[j].key],
     vals |-> valsEvicted \o [j \in DOMAIN st.evicts |-> st.evicts[j].val]]

\* The controller and the buffers after the locked part of a call.
Store(st0, keys, vals) ==
    LET st == Collect(st0)
    IN  /\ size' = st.size
        /\ evictList' = st.evictList
        /\ items' = st.items
        /\ keysEvicted' = keys
        /\ valsEvicted' = vals

\* k = c.keysEvicted[0]; v = c.valsEvicted[0]; both buffers are cut to [:0].
\* taken: the condition under which the call takes the pair.
TakeFirst(t, c0, st, taken) ==
    LET b == Buffered(st)
        c == [c0 EXCEPT !.left = Pairs(st.evicts)]
    IN  IF taken
        THEN /\ Store(st, <<>>, <<>>)
             /\ th' = [th EXCEPT ![t] = [c EXCEPT !.keys = <<b.keys[1]>>,
                                                  !.vals = <<b.vals[1]>>]]
        ELSE /\ Store(st, b.keys, b.vals)
             /\ th' = [th EXCEPT ![t] = c]

\* keys = c.keysEvicted; vals = c.valsEvicted; c.initEvictBuffer()
TakeAll(t, c0, st, taken) ==
    LET b == Buffered(st)
        c == [c0 EXCEPT !.left = Pairs(st.evicts)]
    IN  IF taken
        THEN /\ Store(st, <<>>, <<>>)
             /\ th' = [th EXCEPT ![t] = [c EXCEPT !.keys = b.keys, !.vals = b.vals]]
        ELSE /\ Store(st, b.keys, b.vals)
             /\ th' = [th EXCEPT ![t] = c]

\* evicted := c.lru.Add(key, val), up to the point where a new entry is pushed
\* and indexed (position "evict"); for a key in the cache, the whole of it.
CacheAdd(t, c) ==
    IF LruContains(Cur, c.key).ok
    THEN LET r == LruAdd(Cur, c.key, c.val)
         IN  TakeFirst(t, [c EXCEPT !.pc = "unlock", !.ok = r.ok], r.st, onEvictCb /\ r.ok)
    ELSE /\ Store(LruAddInsert(Cur, c.key, c.val), keysEvicted, valsEvicted)
         /\ th' = [th EXCEPT ![t] = [c EXCEPT !.pc = "evict"]]

\* the rest of c.lru.Add(key, val), and the taking of the evicted pair
CacheAddEvict(t, c) ==
    LET r == LruAddEvict(Cur)
    IN  TakeFirst(t, [c EXCEPT !.pc = "unlock", !.ok = r.ok], r.st, onEvictCb /\ r.ok)

\* if ok = c.lru.Contains(key); ok { ... }: the check; position "add" is the
\* statement evicted = c.lru.Add(key, val) after it.
CacheContainsOrAdd(t, c) ==
    /\ th' = [th EXCEPT ![t] = IF LruContains(Cur, c.key).ok
                               THEN [c EXCEPT !.pc = "unlock", !.found = TRUE]
                               ELSE [c EXCEPT !.pc = "add"]]
    /\ UNCHANGED <<size, evictList, items, keysEvicted, valsEvicted>>

\* prev, ok = c.lru.Peek(key); if ok { ... }
CachePeekOrAdd(t, c) ==
    LET prev == LruPeek(Cur, c.key)
    IN  /\ th' = [th EXCEPT ![t] = IF prev.ok
                                   THEN [c EXCEPT !.pc = "unlock", !.found = TRUE,
                                                  !.rval = prev.rval]
                                   ELSE [c EXCEPT !.pc = "add"]]
        /\ UNCHANGED <<size, evictList, items, keysEvicted, valsEvicted>>

CacheRemove(t, c) ==
    LET r == LruRemove(Cur, c.key)
    IN  TakeFirst(t, [c EXCEPT !.pc = "unlock", !.ok = r.ok], r.st, onEvictCb /\ r.ok)

CacheRemoveOldest(t, c) ==
    LET r == LruRemoveOldest(Cur)
    IN  TakeFirst(t, [c EXCEPT !.pc = "unlock", !.ok = r.ok, !.rkey = r.rkey,
                               !.rval = r.rval],
                  r.st, onEvictCb /\ r.ok)

CacheResize(t, c) ==
    LET r == LruResize(Cur, c.n)
    IN  TakeAll(t, [c EXCEPT !.pc = "unlock", !.rint = r.rint], r.st,
                onEvictCb /\ r.rint > 0)

CachePurge(t, c) ==
    \E order \in Orders(DOMAIN items) :
        LET st == LruPurge(Cur, order)
        IN  TakeAll(t, [c EXCEPT !.pc = "unlock"], st,
                    onEvictCb /\ Len(Buffered(st).keys) > 0)

CacheGet_Peek(t, c) ==
    LET r == LruPeek(Cur, c.key)
    IN  /\ Store(r.st, keysEvicted, valsEvicted)
        /\ th' = [th EXCEPT ![t] = [c EXCEPT !.pc = "unlock", !.ok = r.ok, !.rval = r.rval]]

CacheGet(t, c) ==
    LET r == LruGet(Cur, c.key)
    IN  /\ Store(r.st, keysEvicted, valsEvicted)
        /\ th' = [th EXCEPT ![t] = [c EXCEPT !.pc = "unlock", !.ok = r.ok, !.rval = r.rval]]

\* After Unlock: does the call go on to invoke the user's callback?
ToCall(c) ==
    /\ onEvictCb
    /\ c.i < Len(c.keys)
    /\ CASE c.op \in {"Add", "Remove", "RemoveOldest"} -> c.ok
         [] c.op \in {"ContainsOrAdd", "PeekOrAdd"} -> ~c.found /\ c.ok
         [] c.op = "Resize" -> c.rint > 0
         [] c.op = "Purge" -> TRUE
         [] OTHER -> FALSE

AfterUnlock(c) == [c EXCEPT !.pc = IF ToCall(c) THEN "cb" ELSE "ret"]

\* history: quiet after a step of thread t in the region between Lock and Unlock
QuietAfter(t) ==
    IF th[t].pc = "evict" /\ th[t].op \in {"ContainsOrAdd", "PeekOrAdd"}
    THEN t
    ELSE IF <<size, evictList, items>>' # <<size, evictList, items>> THEN Nil ELSE quiet

Lock_Shared(t) ==
    /\ th[t].pc = "idle"
    /\ \E op \in WriteOps : \E c \in Calls(op, t) :
           th' = [th EXCEPT ![t] = [c EXCEPT !.pc = "locked"]]
    /\ rwm' = [rwm EXCEPT !.w = t]
    /\ UNCHANGED <<size, evictList, items, onEvict, evicts, last, touched, fresh,
                   keysEvicted, valsEvicted, onEvictCb, quiet, ops, delivered>>

\* c.rwm.Lock(), at the start of a mutating call or of Get
Lock(t) ==
    /\ th[t].pc = "idle"
    /\ rwm.w = Nil
    /\ rwm.r = {}
    /\ \E op \in WriteOps : \E c \in Calls(op, t) :
           th' = [th EXCEPT ![t] = [c EXCEPT !.pc = "locked"]]
    /\ rwm' = [rwm EXCEPT !.w = t]
    /\ UNCHANGED <<size, evictList, items, onEvict, evicts, last, touched, fresh,
                   keysEvicted, valsEvicted, onEvictCb, quiet, ops, delivered>>

\* the part of the call between Lock and Unlock
Locked(t) ==
    /\ th[t].pc = "locked"
    /\ LET c == th[t]
       IN  CASE c.op = "Add" -> CacheAdd(t, c)
             [] c.op = "ContainsOrAdd" -> CacheContainsOrAdd(t, c)
             [] c.op = "PeekOrAdd" -> CachePeekOrAdd(t, c)
             [] c.op = "Remove" -> CacheRemove(t, c)
             [] c.op = "RemoveOldest" -> CacheRemoveOldest(t, c)
             [] c.op = "Resize" -> CacheResize(t, c)
             [] c.op = "Purge" -> CachePurge(t, c)
             [] c.op = "Get" -> CacheGet(t, c)
    /\ Len(keysEvicted') <= MaxBuf
    /\ quiet' = QuietAfter(t)
    /\ UNCHANGED <<onEvict, evicts, last, touched, fresh, rwm, onEvictCb, ops, delivered>>

\* ContainsOrAdd and PeekOrAdd, after the check found no key: c.lru.Add
AddAfterCheck(t) ==
    /\ th[t].pc = "add"
    /\ CacheAdd(t, th[t])
    /\ Len(keysEvicted') <= MaxBuf
    /\ quiet' = QuietAfter(t)
    /\ UNCHANGED <<onEvict, evicts, last, touched, fresh, rwm, onEvictCb, ops, delivered>>

\* the second part of the region between Lock and Unlock, in Add,
\* ContainsOrAdd and PeekOrAdd of a key that was not in the cache
Evict(t) ==
    /\ th[t].pc = "evict"
    /\ CacheAddEvict(t, th[t])
    /\ Len(keysEvicted') <= MaxBuf
    /\ quiet' = QuietAfter(t)
    /\ UNCHANGED <<onEvict, evicts, last, touched, fresh, rwm, onEvictCb, ops, delivered>>

Unlock_Deferred(t) ==
    /\ th[t].pc = "unlock"
    /\ rwm' = IF ToCall(th[t]) THEN rwm ELSE [rwm EXCEPT !.w = Nil]
    /\ th' = [th EXCEPT ![t] = AfterUnlock(th[t])]
    /\ UNCHANGED <<size, evictList, items, onEvict, evicts, last, touched, fresh,
                   keysEvicted, valsEvicted, onEvictCb, quiet, ops, delivered>>

\* c.rwm.Unlock()
Unlock(t) ==
    /\ th[t].pc = "unlock"
    /\ rwm' = [rwm EXCEPT !.w = Nil]
    /\ th' = [th EXCEPT ![t] = AfterUnlock(th[t])]
    /\ UNCHANGED <<size, evictList, items, onEvict, evicts, last, touched, fresh,
                   keysEvicted, valsEvicted, onEvictCb, quiet, ops, delivered>>

\* c.onEvictCb(keys[i], vals[i]) begins. The user's callback calls back into
\* the same cache (Contains): it takes the read lock.
Callback(t) ==
    /\ th[t].pc = "cb"
    /\ rwm.w = Nil
    /\ rwm' = [rwm EXCEPT !.r = @ \cup {t}]
    /\ th' = [th EXCEPT ![t].pc = "cbin"]
    /\ UNCHANGED <<size, evictList, items, onEvict, evicts, last, touched, fresh,
                   keysEvicted, valsEvicted, onEvictCb, quiet, ops, delivered>>

\* The callback's call into the cache returns, and so does the callback.
Called(c) ==
    LET c1 == [c EXCEPT !.i = c.i + 1,
                        !.cbs = Append(@, [key |-> c.keys[c.i + 1],
                                           val |-> c.vals[c.i + 1]])]
    IN  [c1 EXCEPT !.pc = IF ToCall(c1) THEN "cb" ELSE "ret"]

CallbackReturn(t) ==
    /\ th[t].pc = "cbin"
    /\ rwm' = [rwm EXCEPT !.r = @ \ {t}]
    /\ th' = [th EXCEPT ![t] = Called(th[t])]
    /\ UNCHANGED <<size, evictList, items, onEvict, evicts, last, touched, fresh,
                   keysEvicted, valsEvicted, onEvictCb, quiet, ops, delivered>>

\* c.rwm.RLock(), at the start of a read-only call
RLock(t) ==
    /\ th[t].pc = "idle"
    /\ rwm.w = Nil
    /\ \E op \in DeferRead \cup EarlyRead : \E c \in Calls(op, t) :
           th' = [th EXCEPT ![t] = [c EXCEPT !.pc = "rlocked"]]
    /\ rwm' = [rwm EXCEPT !.r = @ \cup {t}]
    /\ UNCHANGED <<size, evictList, items, onEvict, evicts, last, touched, fresh,
                   keysEvicted, valsEvicted, onEvictCb, quiet, ops, delivered>>

\* What the read-only call reads from the controller.
ReadResult(c) ==
    CASE c.op = "Contains" -> [c EXCEPT !.ok = LruContains(Cur, c.key).ok]
      [] c.op = "Peek" -> [c EXCEPT !.ok = LruPeek(Cur, c.key).ok,
                                     !.rval = LruPeek(Cur, c.key).rval]
      [] c.op = "GetOldest" -> [c EXCEPT !.ok = LruGetOldest(Cur).ok,
                                          !.rkey = LruGetOldest(Cur).rkey,
                                          !.rval = LruGetOldest(Cur).rval]
      [] c.op = "Keys" -> [c EXCEPT !.rlist = LruKeys(Cur)]
      [] c.op = "Vals" -> [c EXCEPT !.rlist = LruVals(Cur)]
      [] c.op = "Len" -> [c EXCEPT !.rint = LruLen(Cur)]
      [] c.op = "Cap" -> [c EXCEPT !.rint = LruCap(Cur)]

\* Contains and Peek: the read, with the deferred RUnlock still to come
ReadLocked(t) ==
    /\ th[t].pc = "rlocked"
    /\ th[t].op \in DeferRead
    /\ th' = [th EXCEPT ![t] = [ReadResult(th[t]) EXCEPT !.pc = "runlock"]]
    /\ UNCHANGED <<size, evictList, items, onEvict, evicts, last, touched, fresh,
                   rwm, keysEvicted, valsEvicted, onEvictCb, quiet, ops, delivered>>

\* c.rwm.RUnlock(): deferred in Contains and Peek; in GetOldest, Keys, Vals and
\* Len it is the statement after RLock, before the controller is read.
RUnlock(t) ==
    /\ \/ th[t].pc = "runlock"
       \/ th[t].pc = "rlocked" /\ th[t].op \in EarlyRead
    /\ rwm' = [rwm EXCEPT !.r = @ \ {t}]
    /\ th' = [th EXCEPT ![t].pc = IF th[t].op \in EarlyRead THEN "read" ELSE "ret"]
    /\ UNCHANGED <<size, evictList, items, onEvict, evicts, last, touched, fresh,
                   keysEvicted, valsEvicted, onEvictCb, quiet, ops, delivered>>

\* GetOldest, Keys, Vals, Len: the read, after RUnlock
ReadUnlocked(t) ==
    /\ th[t].pc = "read"
    /\ th' = [th EXCEPT ![t] = [ReadResult(th[t]) EXCEPT !.pc = "ret"]]
    /\ UNCHANGED <<size, evictList, items, onEvict, evicts, last, touched, fresh,
                   rwm, keysEvicted, valsEvicted, onEvictCb, quiet, ops, delivered>>

\* Cap takes no lock.
CacheCap(t) ==
    /\ th[t].pc = "idle"
    /\ th' = [th EXCEPT ![t] = [ReadResult([Idle EXCEPT !.op = "Cap"]) EXCEPT !.pc = "ret"]]
    /\ UNCHANGED <<size, evictList, items, onEvict, evicts, last, touched, fresh,
                   rwm, keysEvicted, valsEvicted, onEvictCb, quiet, ops, delivered>>

\* the call returns to its caller
CacheReturn(t) ==
    /\ th[t].pc = "ret"
    /\ th' = [th EXCEPT ![t] = Idle]
    /\ quiet' = IF quiet = t THEN Nil ELSE quiet
    /\ UNCHANGED <<size, evictList, items, onEvict, evicts, last, touched, fresh,
                   rwm, keysEvicted, valsEvicted, onEvictCb, ops, delivered>>

CacheNext ==
    \E t \in Threads :
        \/ Lock(t)
        \/ Locked(t)
        \/ AddAfterCheck(t)
        \/ Evict(t)
        \/ Unlock(t)
        \/ Callback(t)
        \/ CallbackReturn(t)
        \/ RLock(t)
        \/ ReadLocked(t)
        \/ RUnlock(t)
        \/ ReadUnlocked(t)
        \/ CacheCap(t)
        \/ CacheReturn(t)

CacheSpec == Init /\ [][CacheNext]_vars

\* ------------------------------------- a run of calls on disjoint key sets
\* The number of calls in the run.
MaxOps == 4

\* Thread t's own keys.
OwnKeys(t) == {k \in CacheKeys : ((k - 1) % NThreads) + 1 = t}

DisjointCalls(t) ==
    {c \in Calls("Add", t) \cup Calls("Get", t) \cup Calls("Remove", t) :
        c.key \in OwnKeys(t)}

\* c.rwm.Lock(), at the start of an Add, Get or Remove of the run
DisjointLock(t) ==
    /\ th[t].pc = "idle"
    /\ rwm.w = Nil
    /\ rwm.r = {}
    /\ Len(ops) < MaxOps
    /\ \E c \in DisjointCalls(t) :
           /\ th' = [th EXCEPT ![t] = [c EXCEPT !.pc = "locked"]]
           /\ ops' = Append(ops, [op |-> c.op, key |-> c.key, val |-> c.val])
    /\ rwm' = [rwm EXCEPT !.w = t]
    /\ UNCHANGED <<size, evictList, items, onEvict, evicts, last, touched, fresh,
                   keysEvicted, valsEvicted, onEvictCb, quiet, delivered>>

\* The user's callback returns, for a call of the run.
DisjointCallbackReturn(t) ==
    /\ th[t].pc = "cbin"
    /\ rwm' = [rwm EXCEPT !.r = @ \ {t}]
    /\ th' = [th EXCEPT ![t] = Called(th[t])]
    /\ delivered' = Append(delivered, [key |-> th[t].keys[th[t].i + 1],
                                       val |-> th[t].vals[th[t].i + 1]])
    /\ UNCHANGED <<size, evictList, items, onEvict, evicts, last, touched, fresh,
                   keysEvicted, valsEvicted, onEvictCb, quiet, ops>>

DisjointNext ==
    \E t \in Threads :
        \/ DisjointLock(t)
        \/ Locked(t)
        \/ Evict(t)
        \/ Unlock(t)
        \/ Callback(t)
        \/ DisjointCallbackReturn(t)
        \/ CacheReturn(t)

DisjointSpec == Init /\ [][DisjointNext]_vars

\* The same calls made one after the other on the controller alone.
RECURSIVE Replay(_, _, _)
Replay(s, calls, i) ==
    IF i > Len(calls) THEN s
    ELSE LET c == calls[i]
             s1 == CASE c.op = "Add" -> LruAdd(s, c.key, c.val).st
                     [] c.op = "Get" -> LruGet(s, c.key).st
                     [] c.op = "Remove" -> LruRemove(s, c.key).st
         IN  Replay(Collect(s1), calls, i + 1)

Count(q, x) == Cardinality({i \in DOMAIN q : q[i] = x})
SameBag(p, q) == \A x \in Range(p) \cup Range(q) : Count(p, x) = Count(q, x)

\* ------------------------------------------------------- views of a state
CurLen == LruLen(Cur)
CurCap == LruCap(Cur)
CurKeys == LruKeys(Cur)
CurVals == LruVals(Cur)
CurPeek(k) == LruPeek(Cur, k)
CurGet(k) == LruGet(Cur, k)
CurContains(k) == LruContains(Cur, k)
CurEntries == [i \in 1..Len(CurKeys) |-> [key |-> CurKeys[i], val |-> CurVals[i]]]
EvictPairs == Pairs(evicts)
\* what the callback must have been handed when the pairs q left the cache
Reported(q) == IF onEvict THEN q ELSE <<>>
IsPerm(q, S) == Len(q) = Cardinality(S) /\ Range(q) = S

\* ------------------------------------------------------------------ claims
\* C1: after every controller call the cache holds at most Cap() keys:
\* Len() <= Cap(), and the index holds no more keys than that.
C1_Capacity ==
    /\ CurLen <= CurCap
    /\ Cardinality(DOMAIN items) <= CurCap

C1_Witness ==
    /\ last.op = "Add"
    /\ last.ok
    /\ CurLen = CurCap
    /\ CurCap = MaxCap

\* C2: capacity + M distinct keys added to an empty controller evict exactly the
\* M first-added pairs, in insertion order; the callback, when set, is invoked
\* once per evicted pair with that pair; the M evicted keys are not found and
\* the last capacity keys are found, with their values.
C2_Eviction ==
    (fresh.valid /\ Len(fresh.adds) > size) =>
        LET M == Len(fresh.adds) - size
        IN  /\ fresh.gone = SubSeq(fresh.adds, 1, M)
            /\ fresh.evicts = Reported(SubSeq(fresh.adds, 1, M))
            /\ \A i \in 1..M : ~CurContains(fresh.adds[i].key).ok
            /\ \A i \in (M + 1)..Len(fresh.adds) :
                   /\ CurPeek(fresh.adds[i].key).ok
                   /\ CurPeek(fresh.adds[i].key).rval = fresh.adds[i].val
            /\ CurEntries = SubSeq(fresh.adds, M + 1, Len(fresh.adds))

C2_Witness ==
    /\ fresh.valid
    /\ onEvict
    /\ size >= 1
    /\ Len(fresh.adds) = size + 2
    /\ Len(fresh.evicts) = 2

\* C3: Keys() lists every live key exactly once, ordered by the key's most
\* recent touch (its Add or its successful Get), oldest first.
C3_Recency ==
    /\ CurKeys = touched
    /\ IsPerm(CurKeys, DOMAIN items)

C3_Witness ==
    /\ last.op = "Get"
    /\ last.ok
    /\ CurLen >= 2
    /\ CurKeys[CurLen] = last.key
    /\ last.pos = 1

\* C4: Add(k, v2) on a present key returns false, invokes no callback, leaves
\* Len() and every other key's value unchanged, makes k the most recent key,
\* and a following Get(k) returns v2.
C4_Step ==
    (last'.op = "Add" /\ last'.key \in DOMAIN items) =>
        /\ ~last'.ok
        /\ evicts' = <<>>
        /\ last'.gone = <<>>
        /\ CurLen' = CurLen
        /\ DOMAIN items' = DOMAIN items
        /\ \A j \in DOMAIN items \ {last'.key} : CurPeek(j)'.rval = CurPeek(j).rval
        /\ CurKeys' = Append(Without(CurKeys, last'.key), last'.key)
        /\ \A k \in Keys : k = last'.key =>
               /\ CurGet(k)'.ok
               /\ CurGet(k)'.rval = last'.val

C4_UpdateInPlace == [][C4_Step]_vars

C4_Witness ==
    /\ last.op = "Add"
    /\ last.pos = 1
    /\ ~last.ok
    /\ CurLen = 2
    /\ CurLen = CurCap
    /\ CurKeys[2] = last.key
    /\ CurVals[2] = last.val

\* C5: Remove(k) on a present key returns true, deletes k and invokes the
\* callback once with (k, its value); Remove(k) on an absent key, and so the
\* second of two Removes of k in a row, returns false, invokes no callback and
\* leaves the cache unchanged; Get(k) afterwards is not-found.
C5_Step ==
    (last'.op = "Remove") =>
        /\ last'.key \in DOMAIN items =>
               /\ last'.ok
               /\ last'.gone = <<[key |-> last'.key, val |-> CurPeek(last'.key).rval]>>
               /\ EvictPairs' = Reported(last'.gone)
               /\ DOMAIN items' = DOMAIN items \ {last'.key}
        /\ last'.key \notin DOMAIN items =>
               /\ ~last'.ok
               /\ evicts' = <<>>
               /\ last'.gone = <<>>
               /\ UNCHANGED <<size, evictList, items>>
        /\ (last.op = "Remove" /\ last.key = last'.key /\ last.ok) =>
               /\ last'.again
               /\ ~last'.ok
               /\ evicts' = <<>>
               /\ UNCHANGED <<size, evictList, items>>
        /\ \A k \in Keys : k = last'.key => ~CurGet(k)'.ok

C5_RemoveTwice == [][C5_Step]_vars

C5_Witness ==
    /\ last.op = "Remove"
    /\ last.again
    /\ ~last.ok
    /\ CurLen >= 1

\* C6: Resize(n) with 0 <= n < Len() evicts exactly the Len() - n least recently
\* used entries, oldest first, and reports them to the callback in that order;
\* afterwards Len() = n = Cap() and the surviving keys keep their order. With
\* n >= Len() nothing is evicted.
C6_Step ==
    (last'.op = "Resize") =>
        LET n == last'.n
            L == CurLen
        IN  /\ (0 <= n /\ n < L) =>
                   /\ last'.gone = SubSeq(CurEntries, 1, L - n)
                   /\ EvictPairs' = Reported(last'.gone)
                   /\ CurLen' = n
                   /\ CurCap' = n
                   /\ CurEntries' = SubSeq(CurEntries, L - n + 1, L)
            /\ n >= L =>
                   /\ last'.gone = <<>>
                   /\ evicts' = <<>>
                   /\ CurCap' = n
                   /\ UNCHANGED <<evictList, items>>

C6_ResizeShrink == [][C6_Step]_vars

C6_Witness ==
    /\ last.op = "Resize"
    /\ last.n = 0
    /\ Len(last.gone) = 2
    /\ Len(evicts) = 2
    /\ CurLen = 0
    /\ CurCap = 0

\* C7: the integer Resize returns is the number of entries that call evicted.
C7_ResizeCount ==
    (last.op = "Resize") => last.rint = Len(last.gone)

\* C8: after Purge() Len() is 0, Keys() is empty, no key is found by Get, Peek
\* or Contains, Cap() is unchanged, the callback (if set) was invoked exactly
\* once per entry present at the call, with its key and value; an Add after
\* the Purge inserts into an empty cache.
C8_Step ==
    /\ (last'.op = "Purge") =>
           /\ CurLen' = 0
           /\ CurKeys' = <<>>
           /\ CurVals' = <<>>
           /\ \A k \in Keys :
                  /\ ~CurGet(k)'.ok
                  /\ ~CurPeek(k)'.ok
                  /\ ~CurContains(k)'.ok
           /\ CurCap' = CurCap
           /\ IsPerm(last'.gone, Range(CurEntries))
           /\ EvictPairs' = Reported(last'.gone)
    /\ (last.op = "Purge" /\ last'.op = "Add" /\ size >= 1) =>
           /\ ~last'.ok
           /\ CurEntries' = <<[key |-> last'.key, val |-> last'.val]>>

C9_Step ==
    /\ (\/ last'.op \in {"Peek", "Contains", "GetOldest", "Keys", "Vals", "Len", "Cap"}
        \/ (last'.op = "Get" /\ ~last'.ok)) =>
           /\ UNCHANGED <<size, evictList, items>>
           /\ evicts' = <<>>
           /\ last'.gone = <<>>
    /\ (last'.op = "Get" /\ last'.ok) =>
           /\ size' = size
           /\ DOMAIN items' = DOMAIN items
           /\ evicts' = <<>>
           /\ last'.gone = <<>>
           /\ \A k \in DOMAIN items : CurPeek(k)'.rval = CurPeek(k).rval
           /\ CurKeys' = Append(Without(CurKeys, last'.key), last'.key)

C9_ReadOnly == [][C9_Step]_vars

C9_Witness ==
    /\ last.op = "Peek"
    /\ last.ok
    /\ CurLen >= 2
    /\ CurKeys[1] = last.key

\* C10: in the wrapper, while the user's eviction callback executes, the thread
\* that invokes it holds neither the write lock nor (before the callback calls
\* back into the cache) the read lock; so the callback's call into the same
\* cache can take the lock whenever no other thread holds it exclusively.
C10_CallbackUnlocked ==
    \A t \in Threads :
        /\ th[t].pc \in {"cb", "cbin"} => rwm.w # t
        /\ th[t].pc = "cb" =>
               /\ t \notin rwm.r
               /\ rwm.w \notin Threads \ {t} => ENABLED Callback(t)

C10_Witness ==
    \E t \in Threads : \E u \in Threads \ {t} :
        /\ th[t].op = "Purge"
        /\ th[t].pc = "cb"
        /\ th[t].i = 1
        /\ Len(th[t].keys) = 2
        /\ th[u].pc = "locked"
        /\ rwm.w = u

\* C11: in the wrapper with a callback configured, every pair the controller
\* evicts during a mutating call is handed to the user's callback exactly once,
\* by that call after it released the lock and in eviction order: when the call
\* returns, the pairs it handed over are the pairs that left during it; and the
\* buffers are empty whenever the lock is not held.
C11_Delivery ==
    onEvictCb =>
        /\ rwm.w = Nil => keysEvicted = <<>> /\ valsEvicted = <<>>
        /\ \A t \in Threads : th[t].pc = "ret" => th[t].cbs = th[t].left

\* C12: the wrapper's operations are linearizable. A consequence the claim
\* names: what Len, Keys and Vals read is the content of a state between two
\* whole operations, so Len() never exceeds Cap() and Keys() and Vals() never
\* hold more than Cap() elements at the moment they read the controller.
C12_Step ==
    \A t \in Threads :
        th[t].pc = "read" /\ th'[t].pc = "ret" =>
            /\ th[t].op = "Len" => th'[t].rint <= size
            /\ th[t].op \in {"Keys", "Vals"} => Len(th'[t].rlist) <= size

C12_Linearizable == [][C12_Step]_vars

\* C16: every wrapper operation holds the lock while it accesses the
\* controller: a thread in the region of a mutator or of Get holds the write
\* lock, a thread about to read for Contains, Peek, GetOldest, Keys, Vals or Len
\* holds the read lock, and no thread is about to read while another thread is
\* between two steps of a mutation.
C16_LockHeld ==
    \A t \in Threads :
        /\ th[t].pc \in {"locked", "add", "evict"} => rwm.w = t
        /\ th[t].pc = "rlocked" /\ th[t].op \in DeferRead => t \in rwm.r
        /\ th[t].pc = "read" =>
               /\ t \in rwm.r
               /\ \A u \in Threads \ {t} : th[u].pc # "evict"

OrAdd == {"ContainsOrAdd", "PeekOrAdd"}

\* the check of ContainsOrAdd and PeekOrAdd by thread u: it finds the key
\* exactly when the key is in the cache, and then the call changes nothing
C13_Check(u) ==
    (th[u].pc = "locked" /\ th'[u].pc # "locked" /\ th[u].op \in OrAdd) =>
        /\ th'[u].found <=> CurContains(th[u].key).ok
        /\ th'[u].found =>
               /\ th'[u].pc = "unlock"
               /\ ~th'[u].ok
               /\ CurKeys' = CurKeys /\ CurVals' = CurVals /\ size' = size
               /\ th[u].op = "PeekOrAdd" => th'[u].rval = CurPeek(th[u].key).rval
        /\ ~th'[u].found => th'[u].pc = "add"

\* between the check of thread t and the end of its add, no other thread's
\* step changes the cache
C13_Exclusive(t) ==
    (th[t].op \in OrAdd /\ th[t].pc \in {"locked", "add", "evict"} /\ th'[t] = th[t]) =>
        UNCHANGED <<size, evictList, items>>

\* the add of ContainsOrAdd and PeekOrAdd, for a key that was not found, ends as
\* Add ends: an eviction exactly if the size is exceeded, and then of one entry
C13_Added(t) ==
    (th[t].op \in OrAdd /\ th[t].pc = "evict" /\ th'[t].pc = "unlock") =>
        /\ ~th'[t].found
        /\ th'[t].ok <=> CurLen > size
        /\ CurLen' = IF CurLen > size THEN CurLen - 1 ELSE CurLen
        /\ size >= 1 =>
               \A k \in CacheKeys : k = th[t].key =>
                   /\ CurPeek(k)'.ok
                   /\ CurPeek(k)'.rval = th[t].val
                   /\ CurKeys'[CurLen'] = k

\* thread t added the key with one of the two calls and is still in that call,
\* nothing has changed the cache since, and thread u checks for the same key
C13_Second(t, u) ==
    /\ quiet = t
    /\ t # u
    /\ th[u].pc = "locked" /\ th'[u].pc # "locked"
    /\ th[u].op \in OrAdd
    /\ th[u].key = th[t].key

C13_Step ==
    \A t \in Threads :
        /\ C13_Check(t)
        /\ C13_Exclusive(t)
        /\ C13_Added(t)
        /\ \A u \in Threads : C13_Second(t, u) =>
               /\ th'[u].found
               /\ CurPeek(th[t].key).rval = th[t].val

\* C13, as stated: ContainsOrAdd and PeekOrAdd check and add in one exclusive
\* critical section; a key that is present is found and nothing changes, a key
\* that is absent is added as by Add; of two threads calling with the same
\* absent key, exactly one is told that the key was not found, and its value
\* is the one stored.
C13_Atomic == [][C13_Step]_vars

C13_AmendedStep ==
    \A t \in Threads :
        /\ C13_Check(t)
        /\ C13_Exclusive(t)
        /\ C13_Added(t)
        /\ \A u \in Threads : (C13_Second(t, u) /\ size >= 1) =>
               /\ th'[u].found
               /\ CurPeek(th[t].key).rval = th[t].val

\* C13, amended: the same, where the statement about two threads calling with
\* the same absent key holds when Cap() >= 1.
C13_AtomicCap == [][C13_AmendedStep]_vars

C13_Witness ==
    \E t \in Threads : \E u \in Threads \ {t} :
        /\ quiet = t
        /\ size >= 1
        /\ th[t].op = "ContainsOrAdd" /\ ~th[t].found /\ th[t].ok
        /\ th[u].op = "ContainsOrAdd" /\ th[u].found /\ th[u].pc = "unlock"
        /\ th[u].key = th[t].key

\* C14: when the threads' Adds, Gets and Removes on disjoint key sets have all
\* returned, the cache (keys, values, recency order, Len() <= Cap()) and the
\* multiset of the callback's invocations are those of the same calls made
\* one after the other, in the order of their locks, on the controller alone.
C14_Serial ==
    (\A t \in Threads : th[t].pc = "idle") =>
        LET st == Replay(NewLru(size, onEvict), ops, 1)
        IN  /\ CurKeys = LruKeys(st)
            /\ CurVals = LruVals(st)
            /\ CurCap = LruCap(st)
            /\ CurLen <= CurCap
            /\ SameBag(delivered, Pairs(st.evicts))

C14_Witness ==
    /\ \A t \in Threads : th[t].pc = "idle"
    /\ Len(ops) = MaxOps
    /\ \A t \in Threads : \E i \in DOMAIN ops : ops[i].key \in OwnKeys(t)
    /\ \E i \in DOMAIN ops : ops[i].op = "Get"
    /\ \E i \in DOMAIN ops : ops[i].op = "Remove"
    /\ Len(delivered) >= 2

\* C15: after every controller call the index and the list agree: a key is in
\* the index exactly if one entry of the ring carries it, the index maps the
\* key to that entry, and the index holds as many keys as the list has entries.
C15_IndexList ==
    LET ring == Ring(evictList)
        carrying(k) == {i \in DOMAIN ring : evictList.Key[ring[i]] = k}
    IN  /\ \A k \in Keys : k \in DOMAIN items <=> Cardinality(carrying(k)) = 1
        /\ \A k \in DOMAIN items :
               /\ items[k] \in Range(ring)
               /\ evictList.Key[items[k]] = k
               /\ evictList.list[items[k]]
        /\ Cardinality(DOMAIN items) = CurLen
        /\ Len(ring) = CurLen

C15_Witness ==
    /\ last.op = "Remove"
    /\ last.ok
    /\ last.pos = 1
    /\ CurLen = 1
    /\ onEvict

\* the ring of list l is closed, and the walk from the sentinel's next entry
\* to the sentinel visits Length() entries of the list, each once
C17_Closed(l) ==
    LET ring == Ring(l)
    IN  /\ \A n \in {Root} \cup Range(ring) :
               /\ l.next[n] # Nil /\ l.prev[n] # Nil
               /\ l.prev[l.next[n]] = n
               /\ l.next[l.prev[n]] = n
        /\ Len(ring) = Length(l)
        /\ \A i, j \in DOMAIN ring : ring[i] = ring[j] => i = j
        /\ \A i \in DOMAIN ring : l.list[ring[i]]
        /\ IF Length(l) = 0
           THEN Back(l) = Nil /\ l.next[Root] = Root
           ELSE Back(l) = ring[Len(ring)] /\ l.next[Back(l)] = Root
        /\ \A i \in DOMAIN ring :
               PrevEntry(l, ring[i]) = IF i = 1 THEN Nil ELSE ring[i - 1]

\* C17: the list is a closed ring whose walk from the sentinel visits Length()
\* entries, each once and newest first, with Back() the last of them; and it is
\* one again after PushFront, after MoveToFront and Remove of any of its
\* entries, and after Init: PushFront puts the new entry first, MoveToFront
\* moves the entry first and changes neither Length() nor the order of the
\* others, a removed entry has nil next, prev and list and is not in the ring.
C17_Ring ==
    LET l == evictList
        ring == Ring(l)
        pushed == PushFront(l, NewEntry(Cur), Zero, Zero)
    IN  /\ C17_Closed(l)
        /\ C17_Closed(ListInit(l)) /\ Length(ListInit(l)) = 0
        /\ C17_Closed(pushed)
        /\ Ring(pushed) = <<NewEntry(Cur)>> \o ring
        /\ \A e \in Range(ring) :
               /\ C17_Closed(MoveToFront(l, e))
               /\ Length(MoveToFront(l, e)) = Length(l)
               /\ Ring(MoveToFront(l, e)) = <<e>> \o Without(ring, e)
               /\ C17_Closed(ListRemove(l, e))
               /\ Ring(ListRemove(l, e)) = Without(ring, e)
               /\ ListRemove(l, e).next[e] = Nil
               /\ ListRemove(l, e).prev[e] = Nil
               /\ ~ListRemove(l, e).list[e]

C17_Witness ==
    /\ last.op = "Get"
    /\ last.ok
    /\ Len(Ring(evictList)) = MaxCap
    /\ last.pos = 1
    /\ evictList.Key[evictList.next[Root]] = last.key
    /\ Back(evictList) # evictList.next[Root]

\* C18: Resize(n) with any negative n, the most negative int included, sets the
\* capacity to zero and evicts every entry, oldest first, with one invocation
\* of the callback per entry; afterwards Len() = 0 and Cap() = 0.
C18_Step ==
    (last'.op = "Resize" /\ last'.n < 0) =>
        /\ last'.gone = CurEntries
        /\ EvictPairs' = Reported(CurEntries)
        /\ CurLen' = 0
        /\ CurCap' = 0
        /\ CurLen' <= CurCap'

C18_ResizeNegative == [][C18_Step]_vars

\* C19: whenever the controller invokes the eviction callback for a pair, the
\* entry has already left the list and the index: at that moment Contains(k)
\* is false and the index holds as many keys as Len().
C19_CallbackAfterRemoval ==
    \A i \in DOMAIN evicts :
        /\ ~evicts[i].found
        /\ evicts[i].nitems = evicts[i].len

\* when Add(k, v) returns, k is in the cache with value v and is the most
\* recent key, and no pair that left the cache during the call has key k
C20_Kept ==
    \A k \in Keys : k = last'.key =>
        /\ CurPeek(k)'.ok
        /\ CurPeek(k)'.rval = last'.val
        /\ CurLen' >= 1
        /\ CurKeys'[CurLen'] = k
        /\ \A i \in DOMAIN last'.gone : last'.gone[i].key # k

C20_Step == (last'.op = "Add") => C20_Kept

\* C20, as stated: in every reachable controller state, Resize included, when
\* Add(k, v) returns k is present with value v and is the most recent key, and
\* the entry an Add evicts is never the one it inserted.
C20_AddKeeps == [][C20_Step]_vars

C20_AmendedStep == (last'.op = "Add" /\ CurCap >= 1) => C20_Kept

\* C20, amended: the same, for an Add called when Cap() >= 1.
C20_AddKeepsCap == [][C20_AmendedStep]_vars

C20_Witness ==
    /\ last.op = "Add"
    /\ last.ok
    /\ CurCap = 1
    /\ CurKeys = <<last.key>>
    /\ CurVals = <<last.val>>
    /\ Len(last.gone) = 1
    /\ last.gone[1].key # last.key

====
